---- MODULE Spec2Model ----
(***************************************************************************)
(* A model of earthquakes.py: the maximum-finder get_maximum and the       *)
(* module-level per-year aggregation that follows it.                      *)
(*                                                                         *)
(* Encodings.                                                              *)
(*  - A magnitude is an optional number: None is <<>>, the number m is     *)
(*    <<m>> (Python's None against a float).                               *)
(*  - A timestamp (milliseconds since the epoch) is the record             *)
(*    [day, ms] standing for day * MsPerDay + ms with 0 <= ms < MsPerDay:  *)
(*    the timestamps of this century exceed TLC's 32-bit integers.         *)
(*  - A mean is the fraction [num, den] of the sum and the element count.  *)
(*  - A raised exception is pc = "failed" with err = [kind, line].         *)
(***************************************************************************)
EXTENDS Integers, Sequences, FiniteSets, TLC

\* ---------------------------------------------------------------- bounds
\* Longest collection data['features'] explored.
MaxLen == 3
\* Last calendar year whose timestamps the year specification samples.
LastYear == 2099

\* ------------------------------------------------------ program constants
\* The epoch year the code adds to the quotient (line 103).
EpochYear == 1970
\* 1000 * 60 * 60 * 24: milliseconds in a day (lines 98 and 103).
MsPerDay == 86400000
\* A quarter of a day in milliseconds: the .25 of 365.25 (line 103).
QuarterDayMs == 21600000
\* 365.25 days counted in quarter days (line 103).
QuarterDaysPerYear == 1461

\* ------------------------------------------------------------- the inputs
None == <<>>

Some(m) == <<m>>

Magnitudes == {3, 5}

\* geometry.coordinates: longitude, latitude, altitude.
Coordinates == {<<1, 50, 7>>, <<2, 50, 9>>}

\* 2000-01-01T00:00:00.000Z and 2001-06-27T00:00:00.000Z.
Times == {[day |-> 10957, ms |-> 0], [day |-> 11500, ms |-> 0]}

Features == [mag : {None} \cup {Some(m) : m \in Magnitudes},
             coordinates : Coordinates,
             time : Times]

SeqsUpTo(S, n) == UNION {[1..k -> S] : k \in 0..n}

VARIABLES data, pc, i, current_max_magnitude, current_max_location,
          max_magnitude, max_location, years, magnitudes,
          unique_years, counts, average_magnitudes, printed, err

vars == <<data, pc, i, current_max_magnitude, current_max_location,
          max_magnitude, max_location, years, magnitudes,
          unique_years, counts, average_magnitudes, printed, err>>

NoError == [kind |-> "", line |-> 0]

\* ------------------------------------------------------ record extractors
get_magnitude(earthquake) == earthquake.mag

get_location(earthquake) ==
    <<earthquake.coordinates[1], earthquake.coordinates[2]>>

\* A get_maximum that answers an empty list with a default instead of raising.
FirstFeatureDefault(d) ==
    IF Len(d) = 0
    THEN [raises |-> FALSE,
          magnitude |-> None, location |-> <<0, 0>>]
    ELSE [raises |-> FALSE,
          magnitude |-> get_magnitude(d[1]), location |-> get_location(d[1])]

\* data["features"][0] of lines 59-60: IndexError on an empty list.
FirstFeature(d) ==
    IF Len(d) = 0
    THEN [raises |-> TRUE,
          magnitude |-> None, location |-> <<0, 0>>]
    ELSE [raises |-> FALSE,
          magnitude |-> get_magnitude(d[1]), location |-> get_location(d[1])]

\* The comparison of line 64 written >=.
PyGe(a, b) ==
    IF a = None \/ b = None
    THEN [raises |-> TRUE, value |-> FALSE]
    ELSE [raises |-> FALSE, value |-> a[1] >= b[1]]

\* Python 3's a > b: TypeError when either side is None.
PyGt(a, b) ==
    IF a = None \/ b = None
    THEN [raises |-> TRUE, value |-> FALSE]
    ELSE [raises |-> FALSE, value |-> a[1] > b[1]]

\* The year computed with a year of 365 days.
YearOfTime365(t) == EpochYear + (t.day \div 365)

\* int(1970 + (time_ms / 1000) / (60 * 60 * 24 * 365.25)): the quotient of
\* day * MsPerDay + ms by 365.25 days, floored, which is the quotient of the
\* whole quarter days 4 * day + ms \div QuarterDayMs by 1461.
YearOfTime(t) ==
    EpochYear + ((4 * t.day + (t.ms \div QuarterDayMs)) \div QuarterDaysPerYear)

\* ------------------------------------------------------------ numpy parts
RECURSIVE SortSet(_)
SortSet(S) ==
    IF S = {} THEN <<>>
    ELSE LET m == CHOOSE x \in S : \A y \in S : x <= y
         IN <<m>> \o SortSet(S \ {m})

RECURSIVE FirstOccurrences(_)
FirstOccurrences(s) ==
    IF s = <<>> THEN <<>>
    ELSE LET n == Len(s)
             front == FirstOccurrences(SubSeq(s, 1, n - 1))
         IN IF \E k \in 1..(n - 1) : s[k] = s[n] THEN front
            ELSE Append(front, s[n])

CountsOf(u, ar) ==
    [j \in DOMAIN u |-> Cardinality({k \in DOMAIN ar : ar[k] = u[j]})]

\* The distinct values in order of first occurrence, as a hash-keyed
\* accumulation gives them.
np_unique_unsorted(ar) ==
    LET u == FirstOccurrences(ar)
    IN [values |-> u, counts |-> CountsOf(u, ar)]

\* np.unique(ar, return_counts=True): the sorted distinct values and the
\* number of times each occurs.
np_unique(ar) ==
    LET u == SortSet({ar[k] : k \in DOMAIN ar})
    IN [values |-> u, counts |-> CountsOf(u, ar)]

\* magnitudes[years == year]: the elements under the boolean mask, in order.
RECURSIVE Masked(_, _, _)
Masked(mags, ys, year) ==
    IF mags = <<>> THEN <<>>
    ELSE LET n == Len(mags)
             front == Masked(SubSeq(mags, 1, n - 1), SubSeq(ys, 1, n - 1), year)
         IN IF ys[n] = year THEN Append(front, mags[n]) ELSE front

RECURSIVE SumOf(_)
SumOf(s) == IF s = <<>> THEN 0 ELSE s[1][1] + SumOf(Tail(s))

\* ndarray.mean(): an array holding None has dtype object and its sum raises
\* TypeError; otherwise the sum over the number of elements.
np_mean(a) ==
    IF \E k \in DOMAIN a : a[k] = None
    THEN [raises |-> TRUE, num |-> 0, den |-> 1]
    ELSE [raises |-> FALSE, num |-> SumOf(a), den |-> Len(a)]

\* zip(a, b, c): as long as the shortest.
Min3(a, b, c) ==
    IF a <= b /\ a <= c THEN a ELSE IF b <= c THEN b ELSE c

zip(a, b, c) ==
    [k \in 1..Min3(Len(a), Len(b), Len(c)) |-> <<a[k], b[k], c[k]>>]

\* ---------------------------------------------------------------- states
Fail(kind, line) ==
    /\ pc' = "failed"
    /\ err' = [kind |-> kind, line |-> line]

\* The state after line 77: the collection is loaded and counted.
Init ==
    /\ data \in SeqsUpTo(Features, MaxLen)
    /\ pc = "max_init"
    /\ i = 1
    /\ current_max_magnitude = None
    /\ current_max_location = <<>>
    /\ max_magnitude = None
    /\ max_location = <<>>
    /\ years = <<>>
    /\ magnitudes = <<>>
    /\ unique_years = <<>>
    /\ counts = <<>>
    /\ average_magnitudes = <<>>
    /\ printed = <<>>
    /\ err = NoError

\* get_maximum, lines 59-60.
MaxInit ==
    /\ pc = "max_init"
    /\ LET first == FirstFeature(data)
       IN IF first.raises
          THEN /\ Fail("IndexError", 59)
               /\ UNCHANGED <<current_max_magnitude, current_max_location>>
          ELSE /\ current_max_magnitude' = first.magnitude
               /\ current_max_location' = first.location
               /\ pc' = "max_loop"
               /\ err' = err
    /\ i' = 1
    /\ UNCHANGED <<data, max_magnitude, max_location, years, magnitudes,
                   unique_years, counts, average_magnitudes, printed>>

\* get_maximum, lines 61-66: one iteration of the loop.
MaxIter ==
    /\ pc = "max_loop"
    /\ i <= Len(data)
    /\ LET magnitude == get_magnitude(data[i])
           cmp == PyGt(magnitude, current_max_magnitude)
       IN IF cmp.raises
          THEN /\ Fail("TypeError", 64)
               /\ UNCHANGED <<i, current_max_magnitude, current_max_location>>
          ELSE /\ IF cmp.value
                  THEN /\ current_max_magnitude' = magnitude
                       /\ current_max_location' = get_location(data[i])
                  ELSE UNCHANGED <<current_max_magnitude, current_max_location>>
               /\ i' = i + 1
               /\ UNCHANGED <<pc, err>>
    /\ UNCHANGED <<data, max_magnitude, max_location, years, magnitudes,
                   unique_years, counts, average_magnitudes, printed>>

\* get_maximum, line 67, and the caller's lines 78-90.
MaxReturn ==
    /\ pc = "max_loop"
    /\ i > Len(data)
    /\ max_magnitude' = current_max_magnitude
    /\ max_location' = current_max_location
    /\ years' = <<>>
    /\ magnitudes' = <<>>
    /\ i' = 1
    /\ pc' = "agg_loop"
    /\ UNCHANGED <<data, current_max_magnitude, current_max_location,
                   unique_years, counts, average_magnitudes, printed, err>>

\* Lines 93-107: one iteration of the loop over the features.
AggIter ==
    /\ pc = "agg_loop"
    /\ i <= Len(data)
    /\ LET magnitude == data[i].mag
           time_ms == data[i].time
           year == YearOfTime(time_ms)
       IN /\ years' = Append(years, year)
          /\ magnitudes' = Append(magnitudes, magnitude)
    /\ i' = i + 1
    /\ UNCHANGED <<data, pc, current_max_magnitude, current_max_location,
                   max_magnitude, max_location, unique_years, counts,
                   average_magnitudes, printed, err>>

\* Lines 110-115.
Unique ==
    /\ pc = "agg_loop"
    /\ i > Len(data)
    /\ LET u == np_unique(years)
       IN /\ unique_years' = u.values
          /\ counts' = u.counts
    /\ pc' = "averages"
    /\ UNCHANGED <<data, i, current_max_magnitude, current_max_location,
                   max_magnitude, max_location, years, magnitudes,
                   average_magnitudes, printed, err>>

\* Line 120: the list comprehension assigns nothing when a mean raises.
Averages ==
    /\ pc = "averages"
    /\ LET means == [k \in DOMAIN unique_years |->
                        np_mean(Masked(magnitudes, years, unique_years[k]))]
       IN IF \E k \in DOMAIN means : means[k].raises
          THEN /\ Fail("TypeError", 120)
               /\ UNCHANGED average_magnitudes
          ELSE /\ average_magnitudes' =
                      [k \in DOMAIN means |->
                          [num |-> means[k].num, den |-> means[k].den]]
               /\ pc' = "print"
               /\ err' = err
    /\ UNCHANGED <<data, i, current_max_magnitude, current_max_location,
                   max_magnitude, max_location, years, magnitudes,
                   unique_years, counts, printed>>

\* Lines 124-125.
PrintSummary ==
    /\ pc = "print"
    /\ printed' = zip(unique_years, counts, average_magnitudes)
    /\ pc' = "done"
    /\ UNCHANGED <<data, i, current_max_magnitude, current_max_location,
                   max_magnitude, max_location, years, magnitudes,
                   unique_years, counts, average_magnitudes, err>>

Next ==
    \/ MaxInit
    \/ MaxIter
    \/ MaxReturn
    \/ AggIter
    \/ Unique
    \/ Averages
    \/ PrintSummary

Spec == Init /\ [][Next]_vars

\* The year aggregation entered on its own, at line 89, with any collection.
InitAgg ==
    /\ data \in SeqsUpTo(Features, MaxLen)
    /\ pc = "agg_loop"
    /\ i = 1
    /\ current_max_magnitude = None
    /\ current_max_location = <<>>
    /\ max_magnitude = None
    /\ max_location = <<>>
    /\ years = <<>>
    /\ magnitudes = <<>>
    /\ unique_years = <<>>
    /\ counts = <<>>
    /\ average_magnitudes = <<>>
    /\ printed = <<>>
    /\ err = NoError

NextAgg ==
    \/ AggIter
    \/ Unique
    \/ Averages
    \/ PrintSummary

SpecAgg == InitAgg /\ [][NextAgg]_vars

\* ------------------------------------------- the exact UTC calendar year
IsLeap(y) == (y % 4 = 0 /\ y % 100 # 0) \/ y % 400 = 0

LeapsThrough(y) == (y \div 4) - (y \div 100) + (y \div 400)

\* Days from 1970-01-01 to January 1st of year y.
DaysBeforeYear(y) ==
    365 * (y - EpochYear) + LeapsThrough(y - 1) - LeapsThrough(EpochYear - 1)

RECURSIVE UtcYearFrom(_, _)
UtcYearFrom(y, day) ==
    IF day < DaysBeforeYear(y + 1) THEN y ELSE UtcYearFrom(y + 1, day)

UtcYear(t) == UtcYearFrom(EpochYear + (t.day \div 366), t.day)

\* t lies more than 24 hours after the start of its UTC year and more than
\* 24 hours before its end.
FarFromBoundary(t) ==
    LET y == UtcYear(t)
        since == t.day - DaysBeforeYear(y)
        left == DaysBeforeYear(y + 1) - t.day
    IN /\ since >= 2 \/ (since = 1 /\ t.ms > 0)
       /\ left >= 2

TimeLeq(a, b) == a.day < b.day \/ (a.day = b.day /\ a.ms <= b.ms)

\* Offsets from a year boundary: half a year, 24, 18, 12 and 6 hours and one
\* millisecond to either side of it.
BoundaryOffsets ==
    {[dd |-> 0 - 180, ms |-> 0], [dd |-> 0 - 2, ms |-> 86399999],
     [dd |-> 0 - 1, ms |-> 0], [dd |-> 0 - 1, ms |-> 21600000],
     [dd |-> 0 - 1, ms |-> 43199999], [dd |-> 0 - 1, ms |-> 43200000],
     [dd |-> 0 - 1, ms |-> 64800000], [dd |-> 0 - 1, ms |-> 86399999],
     [dd |-> 0, ms |-> 0], [dd |-> 0, ms |-> 1],
     [dd |-> 0, ms |-> 21599999], [dd |-> 0, ms |-> 21600000],
     [dd |-> 0, ms |-> 43199999], [dd |-> 0, ms |-> 43200000],
     [dd |-> 0, ms |-> 64799999], [dd |-> 0, ms |-> 64800000],
     [dd |-> 1, ms |-> 0], [dd |-> 1, ms |-> 1], [dd |-> 180, ms |-> 0]}

SamplesNear(y) ==
    {t \in {[day |-> DaysBeforeYear(y) + o.dd, ms |-> o.ms] : o \in BoundaryOffsets} :
        t.day >= 0 /\ t.ms < MsPerDay}

FeatureAt(t) == [mag |-> Some(3), coordinates |-> <<1, 50, 7>>, time |-> t]

\* Two records, in feed order (time ascending), around one year boundary.
InitYear ==
    /\ \E y \in EpochYear..(LastYear + 1) :
         \E t1, t2 \in SamplesNear(y) :
            /\ TimeLeq(t1, t2)
            /\ data = <<FeatureAt(t1), FeatureAt(t2)>>
    /\ pc = "agg_loop"
    /\ i = 1
    /\ current_max_magnitude = None
    /\ current_max_location = <<>>
    /\ max_magnitude = None
    /\ max_location = <<>>
    /\ years = <<>>
    /\ magnitudes = <<>>
    /\ unique_years = <<>>
    /\ counts = <<>>
    /\ average_magnitudes = <<>>
    /\ printed = <<>>
    /\ err = NoError

SpecYear == InitYear /\ [][NextAgg]_vars

\* ------------------------------------------------- reference definitions
NonNull(d) == {k \in DOMAIN d : d[k].mag # None}

\* The largest non-null magnitude of d, by comparison with every record.
TrueMax(d) ==
    CHOOSE m \in {d[k].mag[1] : k \in NonNull(d)} :
        \A k \in NonNull(d) : d[k].mag[1] <= m

\* The first index among 1..n whose magnitude no record of 1..n exceeds.
EarliestMax(d, n) ==
    CHOOSE k \in 1..n :
        /\ \A j \in 1..n : d[j].mag[1] <= d[k].mag[1]
        /\ \A j \in 1..(k - 1) : d[j].mag[1] < d[k].mag[1]

MaxReturned == pc \in {"agg_loop", "averages", "print", "done"}

MaxOver == pc \notin {"max_init", "max_loop"}

CountsComputed ==
    pc \in {"averages", "print", "done"} \/ (pc = "failed" /\ err.line = 120)

AveragesComputed == pc \in {"print", "done"}

\* The records of year y, as the loop classified them, with a magnitude.
CountedIn(y) == {k \in DOMAIN years : years[k] = y /\ data[k].mag # None}

RECURSIVE SumSeq(_)
SumSeq(s) == IF s = <<>> THEN 0 ELSE s[1] + SumSeq(Tail(s))

RECURSIVE SumMags(_, _)
SumMags(d, K) ==
    IF K = {} THEN 0
    ELSE LET k == CHOOSE x \in K : TRUE
         IN d[k].mag[1] + SumMags(d, K \ {k})

\* ------------------------------------------------------------- the claims

\* C1: for every non-empty collection with a non-null magnitude, once
\* get_maximum is over it has returned, and the magnitude it returned is the
\* largest non-null magnitude of the collection.
C1_MaxIsTrueMax ==
    (Len(data) > 0 /\ NonNull(data) # {} /\ MaxOver) =>
        (MaxReturned /\ max_magnitude = Some(TrueMax(data)))

\* C2: while get_maximum scans, and when it has returned, the current best
\* magnitude and location are those of one record: the earliest record, among
\* those scanned, whose magnitude none of them exceeds (a tie keeps the
\* earlier record).
C2_TieKeepsEarliest ==
    /\ (pc = "max_loop" /\ i > 1) =>
          LET k == EarliestMax(data, i - 1)
          IN /\ current_max_magnitude = data[k].mag
             /\ current_max_location = get_location(data[k])
    /\ (pc = "max_loop" /\ i = 1) =>
          /\ current_max_magnitude = data[1].mag
          /\ current_max_location = get_location(data[1])
    /\ MaxReturned =>
          LET k == EarliestMax(data, Len(data))
          IN /\ max_magnitude = data[k].mag
             /\ max_location = get_location(data[k])

\* C2 witness: get_maximum has returned on a collection where two records at
\* different places tie for the largest magnitude, with the earlier one's place.
C2_Witness ==
    /\ MaxReturned
    /\ \E j, k \in DOMAIN data :
          /\ j < k
          /\ data[j].mag = max_magnitude
          /\ data[k].mag = max_magnitude
          /\ get_location(data[j]) # get_location(data[k])
          /\ max_location = get_location(data[j])

C5_YearsAscendingAligned ==
    /\ CountsComputed =>
          /\ {unique_years[j] : j \in DOMAIN unique_years} =
                 {YearOfTime(data[k].time) : k \in DOMAIN data}
          /\ \A j \in DOMAIN unique_years :
                 j > 1 => unique_years[j - 1] < unique_years[j]
          /\ Len(counts) = Len(unique_years)
          /\ \A j \in DOMAIN unique_years :
                 counts[j] =
                     Cardinality({k \in DOMAIN data :
                                     YearOfTime(data[k].time) = unique_years[j]})
    /\ AveragesComputed =>
          /\ Len(average_magnitudes) = Len(unique_years)
          /\ \A j \in DOMAIN unique_years :
                 LET K == {k \in DOMAIN data :
                              YearOfTime(data[k].time) = unique_years[j]}
                 IN average_magnitudes[j].num * Cardinality(K) =
                        SumMags(data, K) * average_magnitudes[j].den
    /\ pc = "done" =>
          /\ Len(printed) = Len(unique_years)
          /\ \A j \in DOMAIN printed :
                 printed[j] = <<unique_years[j], counts[j], average_magnitudes[j]>>

\* C5 witness: the summary is printed for records that arrive out of year
\* order and in more than one year.
C5_Witness ==
    /\ pc = "done"
    /\ Len(unique_years) >= 2
    /\ \E j, k \in DOMAIN years : j < k /\ years[j] > years[k]

\* C6: the year bucket of every record is the exact UTC calendar year of its
\* timestamp.
C6_YearIsCalendarYear ==
    \A k \in DOMAIN years : years[k] = UtcYear(data[k].time)

\* C7: on a non-empty collection holding null magnitudes, get_maximum does
\* not fail: it is never at a TypeError raised by the comparison of line 64.
C7_NullNeverCrashes ==
    (Len(data) > 0 /\ \E k \in DOMAIN data : data[k].mag = None) =>
        ~(pc = "failed" /\ err.kind = "TypeError" /\ err.line = 64)

C9_EmptyReachesAggregation ==
    Len(data) = 0 =>
        /\ pc # "failed"
        /\ pc = "done" =>
              (unique_years = <<>> /\ counts = <<>> /\ average_magnitudes = <<>>)

\* C9 as amended: for an empty loaded collection the program never reaches
\* the year aggregation; it ends at the IndexError of get_maximum, with no
\* year list, table or printed line.
C9_EmptyNeverReachesAggregation ==
    Len(data) = 0 =>
        /\ pc \in {"max_init", "failed"}
        /\ pc = "failed" => err.line = 59
        /\ years = <<>> /\ magnitudes = <<>>
        /\ unique_years = <<>> /\ counts = <<>>
        /\ average_magnitudes = <<>> /\ printed = <<>>

\* C9 witness: the program has ended on the empty collection before line 89.
C9_Witness ==
    Len(data) = 0 /\ pc = "failed" /\ err.line = 59 /\ years = <<>> /\ printed = <<>>

\* C9, the aggregation entered on its own (SpecAgg): on the empty collection
\* it does not fail and ends with the empty table.
AggEmptyTable ==
    Len(data) = 0 =>
        /\ pc # "failed"
        /\ unique_years = <<>> /\ counts = <<>>
        /\ average_magnitudes = <<>> /\ printed = <<>>

\* C10: for timestamps in the UTC years 1970 to LastYear, the computed year
\* is within 1 of the exact UTC year, equal to it more than 24 hours away
\* from every year boundary, and non-decreasing in the timestamp.
C10_YearErrorBounded ==
    /\ \A k \in DOMAIN years :
          LET t == data[k].time
              e == UtcYear(t)
          IN e <= LastYear =>
                /\ years[k] - e \in {0 - 1, 0, 1}
                /\ FarFromBoundary(t) => years[k] = e
    /\ \A j, k \in DOMAIN years :
          TimeLeq(data[j].time, data[k].time) => years[j] <= years[k]

\* C10 witness: both years are computed, one for a timestamp within 24 hours
\* of a boundary and off by one, one for a timestamp far from it and exact.
C10_Witness ==
    /\ Len(years) = 2
    /\ UtcYear(data[2].time) <= LastYear
    /\ \E k \in DOMAIN years :
          ~FarFromBoundary(data[k].time) /\ years[k] # UtcYear(data[k].time)
    /\ \E k \in DOMAIN years :
          FarFromBoundary(data[k].time) /\ years[k] = UtcYear(data[k].time)

====
